---- MODULE Spec2Model ----
(***************************************************************************)
(* Session / plan / progress tracker of the unit-test generator server:    *)
(* the SessionStateManager class (sessions and plans maps, phase           *)
(* partitioning, next-method selection, progress, hourly cleanup).         *)
(*                                                                         *)
(* Optional values (T | undefined, T | null) are sequences of length <= 1. *)
(* Timestamps are milliseconds.  A session id is the ordinal of the call   *)
(* of generateSessionId that produced it.                                  *)
(***************************************************************************)
EXTENDS Integers, Sequences, FiniteSets, TLC

VARIABLES
  sessions,   \* SessionStateManager.sessions : sessionId -> TestGenerationSession
  plans,      \* SessionStateManager.plans    : sessionId -> TestGenerationPlan
  now,        \* Date.now()
  issued,     \* number of session ids generated so far
  ret,        \* the last call and what it returned
  arg,        \* the input of a pure-function run (createPlan, the analyzers)
  clients,    \* each client's pending tool call and the method it was given
  lastCall    \* sessionId -> time of the last tool call made on the session

vars == <<sessions, plans, now, issued, ret, arg, clients, lastCall>>

----------------------------------------------------------------------------
(* Bounds *)

MaxSessions == 2      \* session ids generated in a run
MaxMethods == 1       \* methods of a session of the store runs
MaxTicks == 2         \* steps of the clock
MaxPlanMethods == 2   \* length of a free method list handed to createPlan
MaxFlowMethods == 2   \* methods of the session a client works through
MaxClients == 2       \* clients calling the tools
MaxCompletions == 3   \* generate_method_test completions counted per client
MaxStatements == 1    \* statements of an analysed method body
MaxIfs == 6           \* if statements of a method whose complexity is computed
MaxLoops == 1         \* loops of each kind in such a method
MaxSwitches == 1      \* switch statements in such a method
MaxErrorPaths == 2    \* error paths of a method whose scenarios are generated
MaxParameters == 2    \* parameters of such a method
MaxRuns == 2          \* runs of the scenario generator on one input
MaxPhaseMethods == 3  \* methods of the session whose phases are followed
MaxTotal == 200       \* methods of a session whose percentage is reported
MaxRemaining == 2     \* untested methods of such a session
MaxNestedIfs == 2     \* if statements of a method whose flow type is determined
MaxCalls == 4         \* call expressions of such a method
MaxParameterCount == 13  \* parameters of a method whose test complexity is computed
MaxClassMethods == 2  \* methods of a class handed to plan_test_generation

(* Program constants *)

RetentionMs == 3600000

TickMs == RetentionMs

----------------------------------------------------------------------------
(* Values *)

None == << >>
Some(x) == << x >>

Priorities == {"high", "medium", "low"}
MethodNames == {"a", "b"}
UnknownName == "zz"
OutputPath == "out.spec.ts"
NoDeps == << >>
OneDep == << "userRepository" >>

Range(s) == {s[i] : i \in 1..Len(s)}

Includes(s, x) == \E i \in 1..Len(s) : s[i] = x

(* Array.prototype.filter: the elements s[i] with keep[i], in order *)
Filter(s, keep) ==
  LET kept == {i \in 1..Len(s) : keep[i]}
      nth(j) == CHOOSE i \in kept : Cardinality({k \in kept : k <= i}) = j
  IN [j \in 1..Cardinality(kept) |-> s[nth(j)]]

Names(methods) == [i \in 1..Len(methods) |-> methods[i].methodName]

MapSet(map, key, value) ==
  [k \in (DOMAIN map) \cup {key} |-> IF k = key THEN value ELSE map[k]]

MapGet(map, key) == IF key \in DOMAIN map THEN Some(map[key]) ELSE None

Min(a, b) == IF a <= b THEN a ELSE b

(* A fresh MethodTestStatus as a caller builds it. *)
NewMethod(name, complexity, priority, dependencies) ==
  [methodName |-> name, complexity |-> complexity, hasTests |-> FALSE,
   testPath |-> None, priority |-> priority, dependencies |-> dependencies,
   lastUpdated |-> None]

MethodsOver(names, complexities, priorities, deps) ==
  {NewMethod(n, c, p, d) : n \in names, c \in complexities,
                           p \in priorities, d \in deps}

ListsUpTo(S, n) == UNION {[1..k -> S] : k \in 0..n}

----------------------------------------------------------------------------
(* SessionStateManager *)

generateSessionId == issued + 1

createSession(ss, sessionId, methods, t) ==
  LET session == [sessionId |-> sessionId, methods |-> methods,
                  completedMethods |-> << >>, totalMethods |-> Len(methods),
                  lastActivity |-> t]
  IN [ret |-> session, sessions |-> MapSet(ss, sessionId, session)]

getSession(ss, sessionId) == MapGet(ss, sessionId)

(* Array.prototype.find: index of the first method with that name, 0 if none *)
FindMethod(methods, methodName) ==
  LET hits == {i \in 1..Len(methods) : methods[i].methodName = methodName}
  IN IF hits = {} THEN 0 ELSE CHOOSE i \in hits : \A j \in hits : i <= j

PushCompleted_Always(completedMethods, methodName, hasTests) ==
  IF hasTests THEN Append(completedMethods, methodName) ELSE completedMethods

(* if (hasTests && !completedMethods.includes(methodName)) push(methodName) *)
PushCompleted(completedMethods, methodName, hasTests) ==
  IF hasTests /\ ~Includes(completedMethods, methodName)
  THEN Append(completedMethods, methodName)
  ELSE completedMethods

updateMethodStatus(ss, sessionId, methodName, hasTests, testPath, t) ==
  IF sessionId \notin DOMAIN ss THEN [ret |-> FALSE, sessions |-> ss]
  ELSE
    LET session == ss[sessionId]
        i == FindMethod(session.methods, methodName)
    IN IF i = 0 THEN [ret |-> FALSE, sessions |-> ss]
       ELSE
         LET method == [session.methods[i] EXCEPT
                          !.hasTests = hasTests,
                          !.testPath = testPath,
                          !.lastUpdated = Some(t)]
             completed ==
               PushCompleted(session.completedMethods, methodName, hasTests)
             updated == [session EXCEPT
                           !.methods = [session.methods EXCEPT ![i] = method],
                           !.completedMethods = completed,
                           !.lastActivity = t]
         IN [ret |-> TRUE, sessions |-> [ss EXCEPT ![sessionId] = updated]]

priorityOrder(p) == CASE p = "high" -> 3 [] p = "medium" -> 2 [] p = "low" -> 1

Compare_ComplexityOnly(a, b) == b.complexity - a.complexity

(* The comparator of getNextMethod's sort: negative when a goes before b. *)
Compare(a, b) ==
  LET priorityDiff == priorityOrder(b.priority) - priorityOrder(a.priority)
  IN IF priorityDiff # 0 THEN priorityDiff ELSE b.complexity - a.complexity

(* Array.prototype.sort is stable: insert x after every element that does
   not compare greater than it. *)
RECURSIVE InsertSorted(_, _)
InsertSorted(x, s) ==
  IF s = << >> THEN << x >>
  ELSE IF Compare(x, Head(s)) < 0 THEN << x >> \o s
  ELSE << Head(s) >> \o InsertSorted(x, Tail(s))

SortMethods(s) ==
  LET F[i \in 0..Len(s)] ==
        IF i = 0 THEN << >> ELSE InsertSorted(s[i], F[i - 1])
  IN F[Len(s)]

Untested(m) == ~m.hasTests

UntestedMethods(methods) ==
  Filter(methods, [i \in 1..Len(methods) |-> Untested(methods[i])])

(* filter() copies, so the sort reorders the copy and not session.methods *)
getNextMethod(ss, sessionId) ==
  IF sessionId \notin DOMAIN ss THEN [ret |-> None, sessions |-> ss]
  ELSE
    LET untestedMethods == UntestedMethods(ss[sessionId].methods)
    IN IF Len(untestedMethods) = 0 THEN [ret |-> None, sessions |-> ss]
       ELSE [ret |-> Some(SortMethods(untestedMethods)[1]), sessions |-> ss]

(* The pairs with total <= 211 for which the double completed / total * 100
   falls just below a tie that the exact quotient reaches (23 / 40 * 100 is
   57.49999999999999) *)
DoubleBelowTie ==
  {<<23, 40>>, <<46, 80>>, <<69, 120>>, <<92, 160>>, <<29, 200>>,
   <<57, 200>>, <<113, 200>>, <<115, 200>>}

(* Math.round(completed / total * 100): round half up, on the double *)
RoundPercent(completed, total) ==
  (200 * completed + total) \div (2 * total)
  - (IF <<completed, total>> \in DoubleBelowTie THEN 1 ELSE 0)

getProgress(ss, sessionId) ==
  IF sessionId \notin DOMAIN ss THEN None
  ELSE
    LET session == ss[sessionId]
        completed == Len(session.completedMethods)
        total == session.totalMethods
    IN Some([completed |-> completed,
             total |-> total,
             percentage |-> IF total > 0 THEN RoundPercent(completed, total) ELSE 0,
             remaining |-> Names(UntestedMethods(session.methods))])

Minutes(n) == ToString(n) \o "min"

IsCritical(m) == m.priority = "high" \/ m.complexity >= 8

IsMedium_NoDependencies(m) ==
  \/ m.priority = "medium"
  \/ (m.complexity >= 4 /\ m.complexity < 8)

IsMedium(m) ==
  \/ m.priority = "medium"
  \/ (m.complexity >= 4 /\ m.complexity < 8)
  \/ Len(m.dependencies) > 0

IsSimple(m) ==
  m.priority = "low" /\ m.complexity < 4 /\ Len(m.dependencies) = 0

Phase(number, name, priority, perMethod, members) ==
  IF Len(members) > 0
  THEN << [phaseNumber |-> number, name |-> name, methods |-> Names(members),
           priority |-> priority,
           estimatedTime |-> Minutes(Len(members) * perMethod),
           completed |-> FALSE] >>
  ELSE << >>

createPhases(methods) ==
  LET criticalMethods ==
        Filter(methods, [i \in 1..Len(methods) |-> IsCritical(methods[i])])
      mediumMethods ==
        Filter(methods, [i \in 1..Len(methods) |-> IsMedium(methods[i])])
      simpleMethods ==
        Filter(methods, [i \in 1..Len(methods) |-> IsSimple(methods[i])])
  IN Phase(1, "Critical Methods", "critical", 8, criticalMethods)
     \o Phase(2, "Core Methods", "high", 5, mediumMethods)
     \o Phase(3, "Utility Methods", "medium", 3, simpleMethods)

MethodMinutes(m) ==
  (IF m.complexity >= 8 THEN 8 ELSE IF m.complexity >= 4 THEN 5 ELSE 3)
  + Len(m.dependencies) * 2

RECURSIVE TotalMinutes(_)
TotalMinutes(methods) ==
  IF methods = << >> THEN 0
  ELSE MethodMinutes(Head(methods)) + TotalMinutes(Tail(methods))

calculateEstimatedTime(methods) ==
  LET totalMinutes == TotalMinutes(methods)
  IN IF totalMinutes < 60 THEN Minutes(totalMinutes)
     ELSE ToString(totalMinutes \div 60) \o "h " \o Minutes(totalMinutes % 60)

createPlan(ps, sessionId, methods) ==
  LET plan == [sessionId |-> sessionId,
               phases |-> createPhases(methods),
               currentPhase |-> 0,
               estimatedTime |-> calculateEstimatedTime(methods)]
  IN [ret |-> plan, plans |-> MapSet(ps, sessionId, plan)]

getPlan(ps, sessionId) == MapGet(ps, sessionId)

AllMethodsCompleted_Some(ss, sessionId, phase) ==
  /\ sessionId \in DOMAIN ss
  /\ \E k \in 1..Len(phase.methods) :
       Includes(ss[sessionId].completedMethods, phase.methods[k])

(* phase.methods.every(m => session?.completedMethods.includes(m)) *)
AllMethodsCompleted(ss, sessionId, phase) ==
  /\ sessionId \in DOMAIN ss
  /\ \A k \in 1..Len(phase.methods) :
       Includes(ss[sessionId].completedMethods, phase.methods[k])

(* Index (from 1) of the first phase naming the method, 0 if none *)
PhaseOf(phases, completedMethod) ==
  LET hits == {i \in 1..Len(phases) : Includes(phases[i].methods, completedMethod)}
  IN IF hits = {} THEN 0 ELSE CHOOSE i \in hits : \A j \in hits : i <= j

updatePlanProgress(ss, ps, sessionId, completedMethod) ==
  IF sessionId \notin DOMAIN ps THEN [ret |-> FALSE, plans |-> ps]
  ELSE
    LET plan == ps[sessionId]
        i == PhaseOf(plan.phases, completedMethod)
    IN IF i = 0 THEN [ret |-> FALSE, plans |-> ps]
       ELSE IF ~AllMethodsCompleted(ss, sessionId, plan.phases[i])
       THEN [ret |-> TRUE, plans |-> ps]
       ELSE
         LET marked == [plan EXCEPT !.phases[i].completed = TRUE]
             moved ==
               IF i - 1 = plan.currentPhase
               THEN [marked EXCEPT
                       !.currentPhase = Min(i, Len(plan.phases) - 1)]
               ELSE marked
         IN [ret |-> TRUE, plans |-> [ps EXCEPT ![sessionId] = moved]]

Expired_Inclusive(session, t) == session.lastActivity <= t - RetentionMs

(* session.lastActivity < oneHourAgo *)
Expired(session, t) == session.lastActivity < t - RetentionMs

cleanup(ss, ps, t) ==
  LET gone == {id \in DOMAIN ss : Expired(ss[id], t)}
  IN [sessions |-> [id \in (DOMAIN ss) \ gone |-> ss[id]],
      plans |-> [id \in (DOMAIN ps) \ gone |-> ps[id]]]

----------------------------------------------------------------------------
(* The tracker driven through its public operations *)

(* Ids a caller can name: 0 was never generated, 1..issued were. *)
KnownIds == 0..issued

CallNames == MethodNames \cup {UnknownName}

(* A client of the server: the tool call it has pending (generate_method_test
   is suspended at its await), the method get_next_method gave it last, and
   the number of generate_method_test calls it completed. *)
Clients == 1..MaxClients
IdleClient ==
  [pc |-> "idle", sessionId |-> 0, methodName |-> None, markCompleted |-> FALSE,
   completions |-> 0]

(* updateMethodStatus(id, m, true, path) and updateMethodStatus(id, m, false) *)
StatusArgs == {<<TRUE, Some(OutputPath)>>, <<FALSE, None>>}

(* Method lists of the sessions: "a" is a high-priority method and "b" a
   low-priority one. *)
SpecMethods == {NewMethod("a", 8, "high", NoDeps), NewMethod("b", 3, "low", NoDeps)}
SpecLists == ListsUpTo(SpecMethods, MaxMethods)
(* The list handed to createPlan for an id that has no session *)
OrphanLists == {<< NewMethod("a", 8, "high", NoDeps) >>}

Init ==
  /\ sessions = << >>
  /\ plans = << >>
  /\ now = 0
  /\ issued = 0
  /\ ret = [op |-> "init"]
  /\ arg = << >>
  /\ clients = [c \in Clients |-> IdleClient]
  /\ lastCall = << >>

CreateSession(methods) ==
  /\ issued < MaxSessions
  /\ LET r == createSession(sessions, generateSessionId, methods, now)
     IN /\ sessions' = r.sessions
        /\ ret' = [op |-> "createSession", val |-> r.ret.sessionId]
  /\ issued' = issued + 1
  /\ UNCHANGED <<plans, now, arg, clients, lastCall>>

CreatePlan(sessionId, methods) ==
  /\ LET r == createPlan(plans, sessionId, methods)
     IN /\ plans' = r.plans
        /\ ret' = [op |-> "createPlan", val |-> r.ret]
  /\ UNCHANGED <<sessions, now, issued, arg, clients, lastCall>>

UpdateMethodStatus(sessionId, methodName, hasTests, testPath) ==
  /\ LET r == updateMethodStatus(sessions, sessionId, methodName, hasTests,
                                 testPath, now)
     IN /\ sessions' = r.sessions
        /\ ret' = [op |-> "updateMethodStatus", val |-> r.ret]
  /\ UNCHANGED <<plans, now, issued, arg, clients, lastCall>>

UpdatePlanProgress(sessionId, completedMethod) ==
  /\ LET r == updatePlanProgress(sessions, plans, sessionId, completedMethod)
     IN /\ plans' = r.plans
        /\ ret' = [op |-> "updatePlanProgress", val |-> r.ret]
  /\ UNCHANGED <<sessions, now, issued, arg, clients, lastCall>>

GetSession(sessionId) ==
  /\ ret' = [op |-> "getSession", val |-> getSession(sessions, sessionId)]
  /\ UNCHANGED <<sessions, plans, now, issued, arg, clients, lastCall>>

GetPlan(sessionId) ==
  /\ ret' = [op |-> "getPlan", val |-> getPlan(plans, sessionId)]
  /\ UNCHANGED <<sessions, plans, now, issued, arg, clients, lastCall>>

GetNextMethod(sessionId) ==
  /\ LET r == getNextMethod(sessions, sessionId)
     IN /\ sessions' = r.sessions
        /\ ret' = [op |-> "getNextMethod", val |-> r.ret]
  /\ UNCHANGED <<plans, now, issued, arg, clients, lastCall>>

GetProgress(sessionId) ==
  /\ ret' = [op |-> "getProgress", val |-> getProgress(sessions, sessionId)]
  /\ UNCHANGED <<sessions, plans, now, issued, arg, clients, lastCall>>

Cleanup ==
  /\ LET r == cleanup(sessions, plans, now)
     IN /\ sessions' = r.sessions
        /\ plans' = r.plans
  /\ ret' = [op |-> "cleanup"]
  /\ UNCHANGED <<now, issued, arg, clients, lastCall>>

Tick ==
  /\ now < MaxTicks * TickMs
  /\ now' = now + TickMs
  /\ ret' = [op |-> "tick"]
  /\ UNCHANGED <<sessions, plans, issued, arg, clients, lastCall>>

Next ==
  \/ \E methods \in SpecLists : CreateSession(methods)
  \/ \E sessionId \in DOMAIN sessions :
       CreatePlan(sessionId, sessions[sessionId].methods)
  \/ \E sessionId \in KnownIds \ DOMAIN sessions, methods \in OrphanLists :
       CreatePlan(sessionId, methods)
  \/ \E sessionId \in KnownIds, methodName \in CallNames, a \in StatusArgs :
       UpdateMethodStatus(sessionId, methodName, a[1], a[2])
  \/ \E sessionId \in KnownIds, methodName \in CallNames :
       UpdatePlanProgress(sessionId, methodName)
  \/ \E sessionId \in KnownIds : GetSession(sessionId)
  \/ \E sessionId \in KnownIds : GetPlan(sessionId)
  \/ \E sessionId \in KnownIds : GetNextMethod(sessionId)
  \/ \E sessionId \in KnownIds : GetProgress(sessionId)
  \/ Cleanup
  \/ Tick

Spec == Init /\ [][Next]_vars

----------------------------------------------------------------------------
(* createPlan as a function of the method list it is handed *)

PlanMethods ==
  MethodsOver(MethodNames, {3, 4, 7, 8}, Priorities, {NoDeps, OneDep})

(* Five methods: two high-priority ones of complexity >= 8, two medium ones
   (complexity 4..7) and a low one (complexity < 4) without dependency. *)
ScenarioLists ==
  {<< NewMethod("m1", h[1], "high", h[2]), NewMethod("m2", h[3], "high", h[4]),
      NewMethod("m3", m[1], "medium", m[2]), NewMethod("m4", m[3], "medium", m[4]),
      NewMethod("m5", c, "low", NoDeps) >> :
     h \in {8, 10} \X {NoDeps, OneDep} \X {8, 10} \X {NoDeps, OneDep},
     m \in {4, 7} \X {NoDeps, OneDep} \X {4, 7} \X {NoDeps, OneDep},
     c \in {1, 3}}

PlanLists == ListsUpTo(PlanMethods, MaxPlanMethods) \cup ScenarioLists

InitPlan ==
  /\ sessions = << >>
  /\ plans = << >>
  /\ now = 0
  /\ issued = 0
  /\ ret = [op |-> "init"]
  /\ arg \in PlanLists
  /\ clients = [c \in Clients |-> IdleClient]
  /\ lastCall = << >>

NextPlan == \E sessionId \in KnownIds : CreatePlan(sessionId, arg)

SpecPlan == InitPlan /\ [][NextPlan]_vars

----------------------------------------------------------------------------
(* One client working through one session with the server's tools *)

FlowMethods == MethodsOver(MethodNames, {3, 9}, Priorities, {NoDeps, OneDep})
FlowLists == ListsUpTo(FlowMethods, MaxFlowMethods)

(* plan_test_generation: createSession, then createPlan on the same list *)
PlanTestGeneration(methods) ==
  /\ LET s == createSession(sessions, generateSessionId, methods, now)
         p == createPlan(plans, s.ret.sessionId, methods)
     IN /\ sessions' = s.sessions
        /\ plans' = p.plans
        /\ ret' = [op |-> "plan_test_generation", val |-> s.ret.sessionId]
  /\ issued' = issued + 1
  /\ lastCall' = MapSet(lastCall, generateSessionId, now)
  /\ UNCHANGED <<now, arg, clients>>

(* generate_method_test, markCompleted branch *)
markCompleted(ss, ps, sessionId, methodName, t) ==
  LET u == updateMethodStatus(ss, sessionId, methodName, TRUE,
                              Some(OutputPath), t)
  IN [sessions |-> u.sessions,
      plans |-> IF getPlan(ps, sessionId) # None
                THEN updatePlanProgress(u.sessions, ps, sessionId, methodName).plans
                ELSE ps]

GenerateMethodTest(sessionId, methodName) ==
  /\ IF \/ getSession(sessions, sessionId) = None
        \/ FindMethod(sessions[sessionId].methods, methodName) = 0
     THEN /\ ret' = [op |-> "generate_method_test", val |-> FALSE]
          /\ UNCHANGED <<sessions, plans>>
     ELSE LET r == markCompleted(sessions, plans, sessionId, methodName, now)
          IN /\ sessions' = r.sessions
             /\ plans' = r.plans
             /\ ret' = [op |-> "generate_method_test", val |-> TRUE]
  /\ UNCHANGED <<now, issued, arg, clients, lastCall>>

NextFlow ==
  \/ /\ issued = 0      \* one planning request: the client's session
     /\ \E methods \in FlowLists : PlanTestGeneration(methods)
  \/ \E sessionId \in KnownIds, methodName \in CallNames :
       GenerateMethodTest(sessionId, methodName)
  \/ \E sessionId \in KnownIds : GetNextMethod(sessionId)

SpecFlow == Init /\ [][NextFlow]_vars

----------------------------------------------------------------------------
(* One session whose plan has up to three phases, completed in any order
   through the tracker and through generate_method_test *)

PhaseMethodNames == <<"a", "b", "c", "d">>

(* A method of Phase 1 only, of Phase 2 only, of Phase 3 only, and one the
   filters of createPhases put in Phase 1 and in Phase 2 *)
PhaseMethods(name) ==
  {NewMethod(name, 8, "high", NoDeps), NewMethod(name, 5, "medium", NoDeps),
   NewMethod(name, 3, "low", NoDeps), NewMethod(name, 5, "high", NoDeps)}

PhaseLists ==
  UNION {{methods \in [1..k -> UNION {PhaseMethods(PhaseMethodNames[i]) : i \in 1..k}] :
            \A i \in 1..k : methods[i].methodName = PhaseMethodNames[i]} :
         k \in 0..MaxPhaseMethods}

PhaseCallNames == {PhaseMethodNames[i] : i \in 1..MaxPhaseMethods} \cup {UnknownName}

NextPhases ==
  \/ /\ issued = 0
     /\ \E methods \in PhaseLists : PlanTestGeneration(methods)
  \/ /\ issued > 0
     /\ \E sessionId \in KnownIds, methodName \in PhaseCallNames, a \in StatusArgs :
          UpdateMethodStatus(sessionId, methodName, a[1], a[2])
  \/ /\ issued > 0
     /\ \E sessionId \in KnownIds, methodName \in PhaseCallNames :
          UpdatePlanProgress(sessionId, methodName)
  \/ /\ issued > 0
     /\ \E sessionId \in KnownIds, methodName \in PhaseCallNames :
          GenerateMethodTest(sessionId, methodName)
  \/ /\ issued > 0
     /\ \E sessionId \in KnownIds : GetProgress(sessionId)

SpecPhases == Init /\ [][NextPhases]_vars

----------------------------------------------------------------------------
(* The tool handlers as clients call them.  A handler runs from one await to
   the next without interruption; generate_method_test awaits the file
   analysis between looking the method up and recording the completion. *)

(* The answer of get_next_method *)
get_next_method(ss, sessionId) ==
  IF getSession(ss, sessionId) = None
  THEN [kind |-> "sessionNotFound", method |-> None]
  ELSE LET nextMethod == getNextMethod(ss, sessionId).ret
       IN IF nextMethod = None
          THEN [kind |-> "allCompleted", method |-> None]
          ELSE [kind |-> "next", method |-> nextMethod]

(* The answer of track_progress *)
track_progress(ss, sessionId) ==
  IF getSession(ss, sessionId) = None
  THEN [kind |-> "sessionNotFound", progress |-> None, next |-> None]
  ELSE LET progress == getProgress(ss, sessionId)
       IN IF progress[1].percentage = 100
          THEN [kind |-> "congratulations", progress |-> progress,
                next |-> None]
          ELSE [kind |-> "progress", progress |-> progress,
                next |-> getNextMethod(ss, sessionId).ret]

(* generate_method_test up to its await: the session and the method exist *)
generateMethodTestLookup(ss, sessionId, methodName) ==
  /\ getSession(ss, sessionId) # None
  /\ FindMethod(ss[sessionId].methods, methodName) # 0

generateMethodTestFinish_IgnoresFlag(ss, ps, sessionId, methodName, mark, t) ==
  markCompleted(ss, ps, sessionId, methodName, t)

(* generate_method_test after its await: if (markCompleted) { ... } *)
generateMethodTestFinish(ss, ps, sessionId, methodName, mark, t) ==
  IF mark THEN markCompleted(ss, ps, sessionId, methodName, t)
  ELSE [sessions |-> ss, plans |-> ps]

(* The history of tool calls: a call on an existing session is noted. *)
LastCallAfter(sessionId) ==
  IF sessionId \in DOMAIN sessions THEN MapSet(lastCall, sessionId, now)
  ELSE lastCall

GetNextMethodTool(c, sessionId) ==
  /\ clients[c].pc # "analyzing"
  /\ LET answer == get_next_method(sessions, sessionId)
     IN /\ ret' = [op |-> "get_next_method", val |-> answer]
        /\ clients' = [clients EXCEPT ![c] =
             [@ EXCEPT !.pc = CASE answer.kind = "next" -> "given"
                              [] answer.kind = "allCompleted" -> "done"
                              [] OTHER -> "idle",
                       !.sessionId = sessionId,
                       !.methodName =
                          IF answer.kind = "next"
                          THEN Some(answer.method[1].methodName) ELSE None]]
  /\ lastCall' = LastCallAfter(sessionId)
  /\ UNCHANGED <<sessions, plans, now, issued, arg>>

TrackProgressTool(sessionId) ==
  /\ ret' = [op |-> "track_progress", val |-> track_progress(sessions, sessionId)]
  /\ lastCall' = LastCallAfter(sessionId)
  /\ UNCHANGED <<sessions, plans, now, issued, arg, clients>>

GenerateMethodTestBegin(c, sessionId, methodName, mark) ==
  /\ clients[c].pc # "analyzing"
  /\ clients[c].completions < MaxCompletions
  /\ IF generateMethodTestLookup(sessions, sessionId, methodName)
     THEN /\ clients' = [clients EXCEPT ![c] =
               [@ EXCEPT !.pc = "analyzing", !.sessionId = sessionId,
                         !.methodName = Some(methodName),
                         !.markCompleted = mark]]
          /\ ret' = [op |-> "generate_method_test", markCompleted |-> mark,
                     val |-> "await"]
     ELSE /\ ret' = [op |-> "generate_method_test", markCompleted |-> mark,
                     val |-> "notFound"]
          /\ UNCHANGED clients
  /\ lastCall' = LastCallAfter(sessionId)
  /\ UNCHANGED <<sessions, plans, now, issued, arg>>

GenerateMethodTestEnd(c) ==
  /\ clients[c].pc = "analyzing"
  /\ LET call == clients[c]
         r == generateMethodTestFinish(sessions, plans, call.sessionId,
                                       call.methodName[1], call.markCompleted,
                                       now)
     IN /\ sessions' = r.sessions
        /\ plans' = r.plans
        /\ ret' = [op |-> "generate_method_test",
                   markCompleted |-> call.markCompleted, val |-> "generated"]
        /\ clients' = [clients EXCEPT ![c] =
             [@ EXCEPT !.pc = "idle", !.methodName = None,
                       !.markCompleted = FALSE,
                       !.completions =
                          IF call.markCompleted THEN @ + 1 ELSE @]]
        /\ lastCall' = LastCallAfter(call.sessionId)
  /\ UNCHANGED <<now, issued, arg>>

(* fileAnalyzer.analyzeFile throws: the catch block answers with the error *)
GenerateMethodTestFails(c) ==
  /\ clients[c].pc = "analyzing"
  /\ ret' = [op |-> "generate_method_test",
             markCompleted |-> clients[c].markCompleted, val |-> "failed"]
  /\ clients' = [clients EXCEPT ![c] =
       [@ EXCEPT !.pc = "idle", !.methodName = None, !.markCompleted = FALSE]]
  /\ lastCall' = LastCallAfter(clients[c].sessionId)
  /\ UNCHANGED <<sessions, plans, now, issued, arg>>

(* One client following the workflow on its session: get_next_method, then
   generate_method_test on the method it was given, until told that all
   methods are completed. *)
FollowNext(c) ==
  /\ issued = 1
  /\ clients[c].pc = "idle"
  /\ GetNextMethodTool(c, 1)

FollowGenerate(c) ==
  /\ clients[c].pc = "given"
  /\ GenerateMethodTestBegin(c, clients[c].sessionId, clients[c].methodName[1],
                             TRUE)

NextClient ==
  \/ /\ issued = 0
     /\ \E methods \in FlowLists : PlanTestGeneration(methods)
  \/ FollowNext(1)
  \/ FollowGenerate(1)
  \/ GenerateMethodTestEnd(1)

SpecClient == Init /\ [][NextClient]_vars

(* Several clients following the workflow on the same session *)
NextConcurrent ==
  \/ /\ issued = 0
     /\ \E methods \in FlowLists : PlanTestGeneration(methods)
  \/ \E c \in Clients : FollowNext(c)
  \/ \E c \in Clients : FollowGenerate(c)
  \/ \E c \in Clients : GenerateMethodTestEnd(c)

SpecConcurrent == Init /\ [][NextConcurrent]_vars

(* The server: planning requests, tool calls of a client, the clock and the
   hourly sweep *)
NextServer ==
  \/ /\ issued < MaxSessions
     /\ \E methods \in SpecLists : PlanTestGeneration(methods)
  \/ \E sessionId \in KnownIds : GetNextMethodTool(1, sessionId)
  \/ \E sessionId \in KnownIds : TrackProgressTool(sessionId)
  \/ \E sessionId \in KnownIds, methodName \in CallNames, mark \in BOOLEAN :
       GenerateMethodTestBegin(1, sessionId, methodName, mark)
  \/ GenerateMethodTestEnd(1)
  \/ GenerateMethodTestFails(1)
  \/ Cleanup
  \/ Tick

SpecServer == Init /\ [][NextServer]_vars


(* The tracker behind the server: sessions come from plan_test_generation,
   and the tracker's operations are called with any id a caller can name. *)
NextTracker ==
  \/ /\ issued < MaxSessions
     /\ \E methods \in SpecLists : PlanTestGeneration(methods)
  \/ \E sessionId \in DOMAIN sessions :
       CreatePlan(sessionId, sessions[sessionId].methods)
  \/ \E sessionId \in KnownIds \ DOMAIN sessions, methods \in OrphanLists :
       CreatePlan(sessionId, methods)
  \/ \E sessionId \in KnownIds, methodName \in CallNames, a \in StatusArgs :
       UpdateMethodStatus(sessionId, methodName, a[1], a[2])
  \/ \E sessionId \in KnownIds, methodName \in CallNames :
       UpdatePlanProgress(sessionId, methodName)
  \/ \E sessionId \in KnownIds : GetNextMethod(sessionId)
  \/ \E sessionId \in KnownIds : GetProgress(sessionId)
  \/ Cleanup
  \/ Tick

SpecTracker == Init /\ [][NextTracker]_vars

----------------------------------------------------------------------------
(* ErrorPathAnalyzer.  A text of the analysed method (an error type, a
   message, the guard of an if) is the source text together with the
   analyzer's keywords that occur in it: has for text.includes(k), lower for
   text.toLowerCase().includes(k).  "ERROR_CONDITION_PATTERNS" in has says
   that one of the patterns of that list matches the text. *)

Text(text, has, lower) == [text |-> text, has |-> has, lower |-> lower]

includes(t, keyword) == keyword \in t.has

lowerIncludes(t, keyword) == keyword \in t.lower

ErrorTypes ==
  {Text("Error", {}, {"error"}),
   Text("ValidationError", {}, {"validation", "valid", "error"}),
   Text("UnauthorizedError", {}, {"unauthorized", "error"}),
   Text("DatabaseError", {"Database"}, {"error"}),
   Text("FatalError", {"Fatal"}, {"error"})}

EmailIsRequired == Text("Email is required", {}, {"required", "email"})

ErrorMessages ==
  {EmailIsRequired,
   Text("Permission denied", {}, {"permission"}),
   Text("User not found", {}, {"not found", "found"})}

NotEmail == Text("!email", {"!", "ERROR_CONDITION_PATTERNS"}, {"email"})
LengthNotPositive ==
  Text("email.length <= 0", {"length", "0"}, {"email", "length"})

Guards ==
  {NotEmail, LengthNotPositive,
   Text("!user.hasPermission(role)", {"!", "ERROR_CONDITION_PATTERNS"},
        {"permission", "role"}),
   Text("user === null", {"null", "===", "ERROR_CONDITION_PATTERNS"}, {"null"}),
   Text("!existing", {"!", "ERROR_CONDITION_PATTERNS"}, {"exist"})}

(* Statements of a method body.  callee and firstArgument are those of the
   thrown new-expression (none: not a new-expression of an identifier, no
   string literal as first argument). *)
ThrowStatement(callee, firstArgument) ==
  [kind |-> "throw", callee |-> callee, firstArgument |-> firstArgument]

IfStatement(condition, body) ==
  [kind |-> "if", condition |-> condition, body |-> body]

TryStatement(body, hasCatch, catchBody, hasFinally) ==
  [kind |-> "try", body |-> body, hasCatch |-> hasCatch,
   catchBody |-> catchBody, hasFinally |-> hasFinally]

ForStatement(body) == [kind |-> "for", body |-> body]

Ancestor(node) ==
  IF node.kind = "if" THEN [kind |-> "if", condition |-> node.condition]
  ELSE [kind |-> node.kind]

CatchClause == [kind |-> "catch"]

(* getDescendantsOfKind: the nodes below a statement list in document order,
   each with its ancestors from the innermost outwards *)
RECURSIVE Descendants(_, _)
Descendants(statements, ancestors) ==
  IF statements = << >> THEN << >>
  ELSE
    LET node == Head(statements)
        inner == << Ancestor(node) >> \o ancestors
        below ==
          CASE node.kind = "throw" -> << >>
            [] node.kind = "if" -> Descendants(node.body, inner)
            [] node.kind = "for" -> Descendants(node.body, inner)
            [] node.kind = "try" ->
                 Descendants(node.body, inner)
                 \o Descendants(node.catchBody, << CatchClause >> \o inner)
    IN << [node |-> node, ancestors |-> ancestors] >> \o below
       \o Descendants(Tail(statements), ancestors)

getDescendantsOfKind(method, kind) ==
  LET all == Descendants(method.body, << >>)
  IN Filter(all, [i \in 1..Len(all) |-> all[i].node.kind = kind])

(* A thrown expression that is not `new Identifier(...)` has type "Error" *)
extractErrorType(throwStmt) ==
  IF throwStmt.callee = None THEN Text("Error", {}, {"error"})
  ELSE throwStmt.callee[1]

extractErrorMessage(throwStmt) == throwStmt.firstArgument

(* The enclosing if / try / for / while / switch statements of a node *)
calculateNestingLevel(ancestors) ==
  Cardinality({i \in 1..Len(ancestors) :
                 ancestors[i].kind \in {"if", "try", "for", "while", "switch"}})

(* `${errorType} ${errorMessage || ""}`.toLowerCase().includes(keyword) *)
ErrorTextIncludes(errorType, errorMessage, keyword) ==
  \/ lowerIncludes(errorType, keyword)
  \/ errorMessage # None /\ lowerIncludes(errorMessage[1], keyword)

categorizeError(errorType, errorMessage) ==
  LET in(keyword) == ErrorTextIncludes(errorType, errorMessage, keyword)
  IN IF in("validation") \/ in("invalid") \/ in("required") THEN "validation"
     ELSE IF in("permission") \/ in("unauthorized") \/ in("forbidden")
     THEN "security"
     ELSE IF in("not found") \/ in("exists") \/ in("business")
     THEN "business-logic"
     ELSE "system"

assessErrorSeverity(errorType, category) ==
  IF category = "security" THEN "critical"
  ELSE IF category = "system" /\ includes(errorType, "Database") THEN "high"
  ELSE IF category = "business-logic" THEN "medium"
  ELSE IF category = "validation" THEN "low"
  ELSE "medium"

isRecoverableError(errorType, category) ==
  IF category = "validation" THEN TRUE
  ELSE IF category = "business-logic" THEN TRUE
  ELSE IF category = "security" THEN FALSE
  ELSE IF includes(errorType, "Fatal") \/ includes(errorType, "Critical")
  THEN FALSE
  ELSE TRUE

(* The nearest enclosing if statement or catch clause names the context;
   every guard of the model is shorter than the 30 characters slice() keeps *)
getParentContext(ancestors) ==
  LET hits == {i \in 1..Len(ancestors) : ancestors[i].kind \in {"if", "catch"}}
  IN IF hits = {} THEN None
     ELSE
       LET current == ancestors[CHOOSE i \in hits : \A j \in hits : i <= j]
       IN IF current.kind = "catch" THEN Some("exception caught")
          ELSE
            LET condition == current.condition
            IN IF \/ includes(condition, "!") \/ includes(condition, "null")
                  \/ includes(condition, "undefined")
               THEN Some("null check failed")
               ELSE IF includes(condition, "length") /\ includes(condition, "0")
               THEN Some("empty collection")
               ELSE IF includes(condition, "===") \/ includes(condition, "!==")
               THEN Some("equality check failed")
               ELSE Some("condition check: " \o condition.text \o "...")

generateSpecificCondition_ExplicitThrow(ancestors, errorMessage, errorType, index) ==
  "explicit throw"

generateSpecificCondition(ancestors, errorMessage, errorType, index) ==
  LET message(keyword) ==
        errorMessage # None /\ lowerIncludes(errorMessage[1], keyword)
      type(keyword) == lowerIncludes(errorType, keyword)
      parentContext == getParentContext(ancestors)
  IN CASE message("required") \/ message("missing") ->
            "missing required parameter"
       [] message("invalid") \/ message("bad") -> "invalid input provided"
       [] message("not found") \/ message("does not exist") -> "entity not found"
       [] message("unauthorized") \/ message("permission") ->
            "unauthorized access"
       [] message("duplicate") \/ message("already exists") -> "duplicate entity"
       [] message("validation") -> "validation error"
       [] message("positive") \/ message("negative") -> "value validation error"
       [] message("format") \/ message("email") -> "format validation error"
       [] type("validation") -> "validation failure"
       [] type("notfound") -> "resource not found"
       [] type("unauthorized") -> "access denied"
       [] type("conflict") -> "resource conflict"
       [] parentContext # None -> parentContext[1]
       [] OTHER ->
            IF index > 0 THEN "explicit throw (" \o ToString(index + 1) \o ")"
            ELSE "explicit throw"

ErrorPath(condition, errorType, errorMessage, severity, category, recoverable, nestedLevel) ==
  [condition |-> condition, errorType |-> errorType,
   errorMessage |-> errorMessage, isExpected |-> TRUE, severity |-> severity,
   category |-> category, recoverable |-> recoverable,
   nestedLevel |-> nestedLevel]

analyzeThrowStatements(method) ==
  LET throws == getDescendantsOfKind(method, "throw")
  IN [i \in 1..Len(throws) |->
        LET throwStmt == throws[i].node
            errorMessage == extractErrorMessage(throwStmt)
            errorType == extractErrorType(throwStmt)
            category == categorizeError(errorType, errorMessage)
        IN ErrorPath(generateSpecificCondition(throws[i].ancestors,
                                               errorMessage, errorType, i - 1),
                     errorType.text,
                     IF errorMessage = None THEN None
                     ELSE Some(errorMessage[1].text),
                     assessErrorSeverity(errorType, category), category,
                     isRecoverableError(errorType, category),
                     calculateNestingLevel(throws[i].ancestors))]

isErrorCondition(condition) ==
  \/ includes(condition, "ERROR_CONDITION_PATTERNS")
  \/ \E keyword \in {"invalid", "error", "fail", "missing", "empty", "null",
                     "undefined"} : lowerIncludes(condition, keyword)

inferErrorTypeFromCondition(condition) ==
  IF lowerIncludes(condition, "null") \/ lowerIncludes(condition, "undefined")
  THEN "NullReferenceError"
  ELSE "ValidationError"

categorizeErrorCondition(condition) ==
  IF \/ lowerIncludes(condition, "null") \/ lowerIncludes(condition, "undefined")
     \/ lowerIncludes(condition, "empty")
  THEN "validation"
  ELSE IF lowerIncludes(condition, "permission") \/ lowerIncludes(condition, "role")
  THEN "security"
  ELSE IF lowerIncludes(condition, "exist") \/ lowerIncludes(condition, "found")
  THEN "business-logic"
  ELSE "system"

assessConditionSeverity(condition, category) ==
  IF category = "security" THEN "high"
  ELSE IF includes(condition, "!") /\ category = "business-logic" THEN "medium"
  ELSE "low"

analyzeConditionalErrors(method) ==
  LET ifs == getDescendantsOfKind(method, "if")
      guarded == Filter(ifs, [i \in 1..Len(ifs) |->
                                isErrorCondition(ifs[i].node.condition)])
  IN [i \in 1..Len(guarded) |->
        LET condition == guarded[i].node.condition
            category == categorizeErrorCondition(condition)
        IN ErrorPath(condition.text, inferErrorTypeFromCondition(condition),
                     None, assessConditionSeverity(condition, category),
                     category, TRUE,
                     calculateNestingLevel(guarded[i].ancestors))]

analyzeTryCatchBlocks(method) ==
  LET tries == getDescendantsOfKind(method, "try")
      caught == Filter(tries, [i \in 1..Len(tries) |-> tries[i].node.hasCatch])
  IN [i \in 1..Len(caught) |->
        LET nestedLevel == calculateNestingLevel(caught[i].ancestors)
        IN ErrorPath("try-catch block", "CaughtError", None,
                     IF nestedLevel > 1 THEN "high" ELSE "medium", "system",
                     caught[i].node.hasFinally, nestedLevel)]

(* methodText.includes("reject") *)
analyzeAsyncErrorPaths(method) ==
  IF method.mentionsReject
  THEN << ErrorPath("promise rejection", "PromiseRejection", None, "medium",
                    "system", TRUE, 0) >>
  ELSE << >>

analyzeErrorPaths(method) ==
  analyzeThrowStatements(method)
  \o analyzeConditionalErrors(method)
  \o analyzeTryCatchBlocks(method)
  \o (IF method.isAsync THEN analyzeAsyncErrorPaths(method) ELSE << >>)

(* The methods analysed: up to MaxStatements statements, a throw alone, under
   a guard, in a loop or in a catch clause, a guard without throw, a
   try/catch. *)
Throws ==
  {ThrowStatement(callee, firstArgument) :
     callee \in {None} \cup {Some(t) : t \in ErrorTypes},
     firstArgument \in {None} \cup {Some(m) : m \in ErrorMessages}}

Statements ==
  Throws
  \cup {IfStatement(g, << t >>) : g \in Guards, t \in Throws}
  \cup {IfStatement(g, << >>) : g \in Guards}
  \cup {TryStatement(<< >>, c, << >>, f) : c \in BOOLEAN, f \in BOOLEAN}
  \cup {ForStatement(<< TryStatement(<< IfStatement(g, << >>) >>, TRUE,
                                     << ThrowStatement(None, None) >>, FALSE) >>) :
          g \in Guards}

MethodDeclarations ==
  [body : ListsUpTo(Statements, MaxStatements),
   isAsync : BOOLEAN, mentionsReject : BOOLEAN]

InitErrorPaths ==
  /\ sessions = << >>
  /\ plans = << >>
  /\ now = 0
  /\ issued = 0
  /\ ret = [op |-> "init"]
  /\ arg \in MethodDeclarations
  /\ clients = [c \in Clients |-> IdleClient]
  /\ lastCall = << >>

AnalyzeErrorPaths ==
  /\ ret.op = "init"
  /\ ret' = [op |-> "analyzeErrorPaths", val |-> analyzeErrorPaths(arg)]
  /\ UNCHANGED <<sessions, plans, now, issued, arg, clients, lastCall>>

NextErrorPaths == AnalyzeErrorPaths

SpecErrorPaths == InitErrorPaths /\ [][NextErrorPaths]_vars

----------------------------------------------------------------------------
(* MethodFlowAnalyzer.calculateComplexity.  A method body is given by the
   number of its descendants of each kind; others are the loops and
   conditionals the analyzer does not look for (for...of, for...in,
   do...while, conditional expressions). *)

SIMPLE_MAX == 3
MEDIUM_MAX == 7

calculateComplexity_FromZero(method) ==
  LET complexity ==
        method.IfStatement + method.ForStatement
        + method.WhileStatement + method.SwitchStatement
  IN IF complexity <= SIMPLE_MAX THEN "simple"
     ELSE IF complexity <= MEDIUM_MAX THEN "medium"
     ELSE "complex"

calculateComplexity(method) ==
  LET complexity ==
        1 + method.IfStatement + method.ForStatement
        + method.WhileStatement + method.SwitchStatement
  IN IF complexity <= SIMPLE_MAX THEN "simple"
     ELSE IF complexity <= MEDIUM_MAX THEN "medium"
     ELSE "complex"

MethodBodies ==
  [IfStatement : 0..MaxIfs, ForStatement : 0..MaxLoops,
   WhileStatement : 0..MaxLoops, SwitchStatement : 0..MaxSwitches,
   others : 0..MaxLoops]

InitComplexity ==
  /\ sessions = << >>
  /\ plans = << >>
  /\ now = 0
  /\ issued = 0
  /\ ret = [op |-> "init"]
  /\ arg \in MethodBodies
  /\ clients = [c \in Clients |-> IdleClient]
  /\ lastCall = << >>

CalculateComplexity ==
  /\ ret.op = "init"
  /\ ret' = [op |-> "calculateComplexity", val |-> calculateComplexity(arg)]
  /\ UNCHANGED <<sessions, plans, now, issued, arg, clients, lastCall>>

NextComplexity == CalculateComplexity

SpecComplexity == InitComplexity /\ [][NextComplexity]_vars

----------------------------------------------------------------------------
(* MethodFlowAnalyzer.analyzeMethodFlow and the step of
   AdvancedAnalyzer.analyzeAdvanced that adds the error paths.  A method
   declaration gives the number of its descendants of each kind, the number
   of its parameters, the side-effect keyword groups its text contains, the
   dependencies its text names, and its body as the error-path analyzer sees
   it. *)

MAX_COMPLEXITY == 10
(* PARAMETER_WEIGHT is 0.5: test complexity is counted in halves *)
HalvesPerUnit == 2
HalvesPerParameter == 1

MethodDecl(name, kinds, parameterCount, sideEffectKinds, dependencyUsage, errorBody) ==
  [name |-> name,
   IfStatement |-> kinds.IfStatement, ForStatement |-> kinds.ForStatement,
   WhileStatement |-> kinds.WhileStatement,
   SwitchStatement |-> kinds.SwitchStatement,
   AwaitExpression |-> kinds.AwaitExpression,
   TryStatement |-> kinds.TryStatement,
   CallExpression |-> kinds.CallExpression,
   parameterCount |-> parameterCount,
   sideEffectKinds |-> sideEffectKinds,
   dependencyUsage |-> dependencyUsage,
   body |-> errorBody.body, isAsync |-> errorBody.isAsync,
   mentionsReject |-> errorBody.mentionsReject]

determineFlowType(method) ==
  LET hasLoops == method.ForStatement > 0
      hasConditionals == method.IfStatement > 0
      hasAwait == method.AwaitExpression > 0
      hasErrorHandling == method.TryStatement > 0
  IN IF hasErrorHandling /\ hasAwait THEN "error-prone"
     ELSE IF hasAwait /\ method.CallExpression > 3 THEN "async-chain"
     ELSE IF hasLoops THEN "loop"
     ELSE IF hasConditionals THEN "conditional"
     ELSE "linear"

SideEffect(type) == [type |-> type, needsMocking |-> TRUE]

analyzeSideEffects(method) ==
  (IF "database" \in method.sideEffectKinds
   THEN <<SideEffect("database")>> ELSE << >>)
  \o (IF "network" \in method.sideEffectKinds
      THEN <<SideEffect("network")>> ELSE << >>)
  \o (IF "notification" \in method.sideEffectKinds
      THEN <<SideEffect("notification")>> ELSE << >>)

(* Math.min(Math.ceil(complexity), MAX_COMPLEXITY) *)
calculateTestComplexity(method, errorPaths, sideEffects) ==
  LET mocked == Filter(sideEffects,
                       [i \in 1..Len(sideEffects) |-> sideEffects[i].needsMocking])
      halves == HalvesPerUnit
                + method.parameterCount * HalvesPerParameter
                + Len(errorPaths) * HalvesPerUnit
                + Len(mocked) * HalvesPerUnit
  IN Min((halves + HalvesPerUnit - 1) \div HalvesPerUnit, MAX_COMPLEXITY)

analyzeMethodFlow(method) ==
  LET errorPaths == << >>
      sideEffects == analyzeSideEffects(method)
  IN [name |-> method.name,
      complexity |-> calculateComplexity(method),
      flowType |-> determineFlowType(method),
      dependencyUsage |-> method.dependencyUsage,
      errorPaths |-> errorPaths,
      sideEffects |-> sideEffects,
      testComplexity |->
        calculateTestComplexity(method, errorPaths, sideEffects)]

(* methods.map(method => ({ ...method, errorPaths })) *)
analyzeAdvancedMethod(method) ==
  [analyzeMethodFlow(method) EXCEPT !.errorPaths = analyzeErrorPaths(method)]

NoErrorBody == [body |-> << >>, isAsync |-> FALSE, mentionsReject |-> FALSE]

NoKinds ==
  [IfStatement |-> 0, ForStatement |-> 0, WhileStatement |-> 0,
   SwitchStatement |-> 0, AwaitExpression |-> 0, TryStatement |-> 0,
   CallExpression |-> 0]

(* Methods for the flow type: nested ifs, loops of either kind, awaits, a
   try statement and call expressions around the threshold of 3 *)
FlowKinds ==
  [IfStatement : 0..MaxNestedIfs, ForStatement : 0..MaxLoops,
   WhileStatement : 0..MaxLoops, SwitchStatement : {0},
   AwaitExpression : 0..MaxLoops, TryStatement : 0..MaxLoops,
   CallExpression : 0..MaxCalls]

FlowDecls == {MethodDecl("a", k, 0, {}, << >>, NoErrorBody) : k \in FlowKinds}

InitFlowType ==
  /\ sessions = << >>
  /\ plans = << >>
  /\ now = 0
  /\ issued = 0
  /\ ret = [op |-> "init"]
  /\ arg \in FlowDecls
  /\ clients = [c \in Clients |-> IdleClient]
  /\ lastCall = << >>

AnalyzeMethodFlow ==
  /\ ret.op = "init"
  /\ ret' = [op |-> "analyzeMethodFlow", val |-> analyzeMethodFlow(arg)]
  /\ UNCHANGED <<sessions, plans, now, issued, arg, clients, lastCall>>

NextFlowType == AnalyzeMethodFlow

SpecFlowType == InitFlowType /\ [][NextFlowType]_vars

(* Methods for the test complexity: parameters, side effects, and bodies
   with zero, one and two error paths *)
ErrorBodies ==
  {NoErrorBody,
   [body |-> <<IfStatement(LengthNotPositive,
                           <<ThrowStatement(Some(CHOOSE t \in ErrorTypes : t.text = "Error"),
                                            Some(EmailIsRequired))>>)>>,
    isAsync |-> FALSE, mentionsReject |-> FALSE],
   [body |-> <<IfStatement(NotEmail,
                           <<ThrowStatement(Some(CHOOSE t \in ErrorTypes : t.text = "Error"),
                                            Some(EmailIsRequired))>>)>>,
    isAsync |-> FALSE, mentionsReject |-> FALSE]}

SideEffectKinds == {"database", "network", "notification"}

(* The kinds of a body of ErrorBodies: an if statement where it has one *)
KindsOf(errorBody) ==
  IF errorBody.body = << >> THEN NoKinds
  ELSE [NoKinds EXCEPT !.IfStatement = 1]

TestedDecls ==
  {MethodDecl("a", KindsOf(b), p, k, << >>, b) :
     p \in 0..MaxParameterCount, k \in SUBSET SideEffectKinds, b \in ErrorBodies}

InitTestComplexity ==
  /\ sessions = << >>
  /\ plans = << >>
  /\ now = 0
  /\ issued = 0
  /\ ret = [op |-> "init"]
  /\ arg \in TestedDecls
  /\ clients = [c \in Clients |-> IdleClient]
  /\ lastCall = << >>

AnalyzeAdvanced ==
  /\ ret.op = "init"
  /\ ret' = [op |-> "analyzeAdvanced", val |-> analyzeAdvancedMethod(arg)]
  /\ UNCHANGED <<sessions, plans, now, issued, arg, clients, lastCall>>

NextTestComplexity == AnalyzeAdvanced

SpecTestComplexity == InitTestComplexity /\ [][NextTestComplexity]_vars

----------------------------------------------------------------------------
(* plan_test_generation on a class: the file analysis, its conversion to the
   method list of the session, the session and the plan *)

(* parseInt of a text: the integer its leading digits spell, none (NaN) when
   it starts with no digit, as the complexity classes do *)
parseInt(text) ==
  IF text \in {"simple", "medium", "complex"} THEN None
  ELSE IF \E n \in 0..MAX_COMPLEXITY : ToString(n) = text
  THEN Some(CHOOSE n \in 0..MAX_COMPLEXITY : ToString(n) = text)
  ELSE None

(* FileAnalyzer.analyzeFile: the method infos and the advanced analysis,
   which it always attaches *)
analyzeFile(class) ==
  [methods |-> [i \in 1..Len(class) |->
                  [name |-> class[i].name, isAsync |-> class[i].isAsync,
                   parameterCount |-> class[i].parameterCount,
                   decoratorCount |-> 0]],
   advancedAnalysis |->
     Some([methods |-> [i \in 1..Len(class) |-> analyzeAdvancedMethod(class[i])]])]

AdvancedStatus(method) ==
  LET complexityNum == IF parseInt(method.complexity) = None THEN 1
                       ELSE parseInt(method.complexity)[1]
      priority == IF complexityNum >= 8 THEN "high"
                  ELSE IF complexityNum >= 4 THEN "medium" ELSE "low"
  IN NewMethod(method.name, complexityNum, priority, method.dependencyUsage)

BasicStatus(method) ==
  LET complexity == 1 + (IF method.isAsync THEN 2 ELSE 0)
                    + (IF method.parameterCount > 3 THEN 1 ELSE 0)
                    + (IF method.decoratorCount > 0 THEN 1 ELSE 0)
      priority == IF complexity >= 6 THEN "high"
                  ELSE IF complexity >= 3 THEN "medium" ELSE "low"
  IN NewMethod(method.name, complexity, priority, NoDeps)

convertToMethodTestStatus(fileStructure) ==
  IF fileStructure.advancedAnalysis # None
  THEN LET methods == fileStructure.advancedAnalysis[1].methods
       IN [i \in 1..Len(methods) |-> AdvancedStatus(methods[i])]
  ELSE [i \in 1..Len(fileStructure.methods) |->
          BasicStatus(fileStructure.methods[i])]

(* Methods of the three complexity classes (score 1, 5 and 9), with and
   without a dependency, synchronous or not, with few or many parameters *)
ClassKinds == {[NoKinds EXCEPT !.IfStatement = n] : n \in {0, 4, 8}}

ClassMethods(name) ==
  {MethodDecl(name, k, p, {}, d, [NoErrorBody EXCEPT !.isAsync = a]) :
     k \in ClassKinds, p \in {0, 4}, d \in {NoDeps, OneDep}, a \in BOOLEAN}

Classes ==
  UNION {{class \in [1..n -> UNION {ClassMethods(PhaseMethodNames[i]) : i \in 1..n}] :
            \A i \in 1..n : class[i].name = PhaseMethodNames[i]} :
         n \in 1..MaxClassMethods}

InitPlanning ==
  /\ sessions = << >>
  /\ plans = << >>
  /\ now = 0
  /\ issued = 0
  /\ ret = [op |-> "init"]
  /\ arg \in Classes
  /\ clients = [c \in Clients |-> IdleClient]
  /\ lastCall = << >>

PlanTestGenerationTool ==
  /\ issued = 0
  /\ PlanTestGeneration(convertToMethodTestStatus(analyzeFile(arg)))

NextPlanning == PlanTestGenerationTool

SpecPlanning == InitPlanning /\ [][NextPlanning]_vars

----------------------------------------------------------------------------
(* TestScenarioGenerator.generateMethodScenarios.  Strings are built as the
   template literals build them; the vocabulary holds no quote or backslash,
   so JSON.stringify of a string is the string between double quotes. *)

RECURSIVE joinQuoted(_)
joinQuoted(strings) ==
  IF strings = << >> THEN ""
  ELSE IF Len(strings) = 1 THEN "\"" \o Head(strings) \o "\""
  ELSE "\"" \o Head(strings) \o "\"," \o joinQuoted(Tail(strings))

stringify(strings) == "[" \o joinQuoted(strings) \o "]"

getScenarioKey(scenario) ==
  scenario.name \o "|" \o scenario.type \o "|" \o stringify(scenario.setup)
  \o "|" \o stringify(scenario.expectations)

Dependencies == <<[name |-> "userRepo", commonMethods |-> <<"find", "save">>]>>

RECURSIVE mockSetups(_, _)
mockSetups(depName, commonMethods) ==
  IF commonMethods = << >> THEN << >>
  ELSE <<depName \o "Mock." \o Head(commonMethods)
         \o ".resolves(expectedResult)">>
       \o mockSetups(depName, Tail(commonMethods))

RECURSIVE dependencySetups(_, _)
dependencySetups(dependencyUsage, dependencies) ==
  IF dependencyUsage = << >> THEN << >>
  ELSE LET depName == Head(dependencyUsage)
           found == {i \in DOMAIN dependencies : dependencies[i].name = depName}
           rest == dependencySetups(Tail(dependencyUsage), dependencies)
       IN IF found = {} THEN rest
          ELSE mockSetups(depName, dependencies[CHOOSE i \in found : \A j \in found : i <= j]
                            .commonMethods)
               \o rest

generateSuccessSetup(method, dependencies) ==
  dependencySetups(method.dependencyUsage, dependencies)
  \o <<"const expectedResult = fake()">>

successScenario(method, dependencies) ==
  [name |-> method.name \o " success",
   type |-> "success",
   setup |-> generateSuccessSetup(method, dependencies),
   expectations |-> <<"expect(result).toEqual(expectedResult)">>,
   priority |-> 5]

errorScenario(method, errorPath) ==
  [name |-> method.name \o " error - " \o errorPath.condition,
   type |-> "error",
   setup |-> <<"Setup condition: " \o errorPath.condition>>,
   expectations |-> <<"should throw " \o errorPath.errorType>>,
   priority |-> 4]

edgeCaseScenario(method, paramName) ==
  [name |-> method.name \o " with null " \o paramName,
   type |-> "edge-case",
   setup |-> <<"const " \o paramName \o " = null">>,
   expectations |-> <<"expect(() => method(null)).toThrow()">>,
   priority |-> 3]

(* scenarios and seenScenarios after a scenario is offered *)
pushUnlessSeen_Always(acc, scenario) ==
  [scenarios |-> Append(acc.scenarios, scenario),
   seenScenarios |-> acc.seenScenarios \union {getScenarioKey(scenario)}]

pushUnlessSeen(acc, scenario) ==
  IF getScenarioKey(scenario) \in acc.seenScenarios THEN acc
  ELSE [scenarios |-> Append(acc.scenarios, scenario),
        seenScenarios |-> acc.seenScenarios \union {getScenarioKey(scenario)}]

RECURSIVE forEachErrorPath(_, _, _)
forEachErrorPath(acc, method, errorPaths) ==
  IF errorPaths = << >> THEN acc
  ELSE forEachErrorPath(
         pushUnlessSeen(acc, errorScenario(method, Head(errorPaths))),
         method, Tail(errorPaths))

RECURSIVE forEachParameter(_, _, _)
forEachParameter(acc, method, parameters) ==
  IF parameters = << >> THEN acc
  ELSE forEachParameter(
         pushUnlessSeen(acc, edgeCaseScenario(method, Head(parameters))),
         method, Tail(parameters))

generateMethodScenarios(method, dependencies, methodDecl) ==
  LET success == successScenario(method, dependencies)
      first == [scenarios |-> <<success>>,
                seenScenarios |-> {getScenarioKey(success)}]
      errors == forEachErrorPath(first, method, method.errorPaths)
      edges == IF methodDecl.defined
               THEN forEachParameter(errors, method, methodDecl.parameters)
               ELSE errors
  IN edges.scenarios

ScenarioErrorPaths ==
  [condition : {"!email", "missing required parameter"},
   errorType : {"Error", "ValidationError"}]

ParameterNames == {"email", "name"}

ScenarioInputs ==
  [method : [name : {"createUser"},
             errorPaths : ListsUpTo(ScenarioErrorPaths, MaxErrorPaths),
             dependencyUsage : {<< >>, <<"userRepo">>, <<"mailer">>}],
   dependencies : {<< >>, Dependencies},
   methodDecl : [defined : BOOLEAN,
                 parameters : ListsUpTo(ParameterNames, MaxParameters)]]

InitScenarios ==
  /\ sessions = << >>
  /\ plans = << >>
  /\ now = 0
  /\ issued = 0
  /\ ret = [op |-> "init", runs |-> << >>]
  /\ arg \in ScenarioInputs
  /\ clients = [c \in Clients |-> IdleClient]
  /\ lastCall = << >>

GenerateMethodScenarios ==
  /\ ret.op \in {"init", "generateMethodScenarios"}
  /\ Len(ret.runs) < MaxRuns
  /\ ret' = [op |-> "generateMethodScenarios",
             runs |-> Append(ret.runs,
                             generateMethodScenarios(arg.method,
                                                     arg.dependencies,
                                                     arg.methodDecl))]
  /\ UNCHANGED <<sessions, plans, now, issued, arg, clients, lastCall>>

NextScenarios == GenerateMethodScenarios

SpecScenarios == InitScenarios /\ [][NextScenarios]_vars

----------------------------------------------------------------------------
(* track_progress and getProgress on a session of many methods, of which the
   first ones have been completed with generate_method_test *)

CountedName(i) == "m" \o ToString(i)

TestedMethod(name) ==
  [NewMethod(name, 1, "low", NoDeps) EXCEPT
     !.hasTests = TRUE, !.testPath = Some(OutputPath), !.lastUpdated = Some(0)]

SessionOf(completed, total) ==
  [sessionId |-> 1,
   methods |-> [i \in 1..total |->
                  IF i <= completed THEN TestedMethod(CountedName(i))
                  ELSE NewMethod(CountedName(i), 1, "low", NoDeps)],
   completedMethods |-> [i \in 1..completed |-> CountedName(i)],
   totalMethods |-> total,
   lastActivity |-> 0]

ProgressInputs ==
  {[completed |-> c, total |-> t] :
     t \in 1..MaxTotal, c \in 0..MaxTotal} \cap
  {[completed |-> t - r, total |-> t] : t \in 1..MaxTotal, r \in 0..MaxRemaining}

InitProgress ==
  /\ arg \in ProgressInputs
  /\ sessions = <<SessionOf(arg.completed, arg.total)>>
  /\ plans = << >>
  /\ now = 0
  /\ issued = 1
  /\ ret = [op |-> "init"]
  /\ clients = [c \in Clients |-> IdleClient]
  /\ lastCall = <<0>>

NextProgress ==
  \/ /\ ret.op = "init"
     /\ TrackProgressTool(1)
  \/ /\ ret.op = "init"
     /\ GetProgress(1)

SpecProgress == InitProgress /\ [][NextProgress]_vars

----------------------------------------------------------------------------
(* Properties *)

NoDuplicates(s) == \A i, j \in 1..Len(s) : s[i] = s[j] => i = j

PhaseNames(plan) ==
  UNION {Range(plan.phases[i].methods) : i \in 1..Len(plan.phases)}

PhasesNaming(plan, name) ==
  {i \in 1..Len(plan.phases) : Includes(plan.phases[i].methods, name)}

UnknownIds == KnownIds \ DOMAIN sessions

(* C1: getNextMethod never returns a method whose name is in the session's
   completedMethods, whatever createSession, updateMethodStatus (hasTests
   true or false) and updatePlanProgress calls came before. *)
C1_NextNotCompleted ==
  \A id \in DOMAIN sessions :
    LET next == getNextMethod(sessions, id).ret
    IN next # None =>
         ~Includes(sessions[id].completedMethods, next[1].methodName)

(* C2: for an existing session getNextMethod returns none exactly when
   completedMethods holds the name of every method of the session. *)
C2_NoneIffAllCompleted ==
  \A id \in DOMAIN sessions :
    (getNextMethod(sessions, id).ret = None)
      <=> (\A i \in 1..Len(sessions[id].methods) :
             Includes(sessions[id].completedMethods,
                      sessions[id].methods[i].methodName))

(* C3: the phases createPlan builds are disjoint: every method name handed
   in is named by exactly one phase. *)
C3_PhasesDisjoint ==
  \A id \in DOMAIN plans :
    \A name \in Range(Names(arg)) :
      Cardinality(PhasesNaming(plans[id], name)) = 1

(* C4: the phases createPlan builds are exhaustive: the names the phases
   list are exactly the names handed in. *)
C4_PhasesExhaustive ==
  \A id \in DOMAIN plans : PhaseNames(plans[id]) = Range(Names(arg))

(* C4 witness: a plan built from a low-priority, low-complexity method with
   a dependency, which only the dependency clause of Phase 2 picks up. *)
C4_Witness ==
  \E id \in DOMAIN plans : \E i \in 1..Len(arg) :
    /\ arg[i].priority = "low" /\ arg[i].complexity < 4
    /\ Len(arg[i].dependencies) > 0
    /\ \E k \in PhasesNaming(plans[id], arg[i].methodName) :
         plans[id].phases[k].phaseNumber = 2

(* C5: after every complete-method step each phase whose methods are all in
   completedMethods is marked completed. *)
C5_CoveredPhasesCompleted ==
  \A id \in (DOMAIN plans) \cap (DOMAIN sessions) :
    \A i \in 1..Len(plans[id].phases) :
      (\A k \in 1..Len(plans[id].phases[i].methods) :
         Includes(sessions[id].completedMethods, plans[id].phases[i].methods[k]))
        => plans[id].phases[i].completed

(* C6: updateMethodStatus(id, m, true, path) on an existing session and
   method succeeds, sets hasTests of the (first) method of that name, records
   the path and the current time, and completedMethods never names a method
   twice, before or after the call. *)
C6_UpdateRecordsOnce ==
  \A id \in DOMAIN sessions :
    /\ NoDuplicates(sessions[id].completedMethods)
    /\ \A i \in 1..Len(sessions[id].methods) :
         LET name == sessions[id].methods[i].methodName
             r == updateMethodStatus(sessions, id, name, TRUE,
                                     Some(OutputPath), now)
             after == r.sessions[id]
         IN (\A j \in 1..(i - 1) : sessions[id].methods[j].methodName # name)
            => /\ r.ret = TRUE
               /\ after.methods[i].hasTests = TRUE
               /\ after.methods[i].testPath = Some(OutputPath)
               /\ after.methods[i].lastUpdated = Some(now)
               /\ Includes(after.completedMethods, name)
               /\ NoDuplicates(after.completedMethods)

(* C6 witness: a method completed by updateMethodStatus some time after the
   session was created; completing it again is the repeated case. *)
C6_Witness ==
  /\ ret = [op |-> "updateMethodStatus", val |-> TRUE]
  /\ now > 0
  /\ \E id \in DOMAIN sessions : \E i \in 1..Len(sessions[id].methods) :
       /\ sessions[id].methods[i].hasTests
       /\ sessions[id].methods[i].lastUpdated = Some(now)
       /\ sessions[id].completedMethods
            = << sessions[id].methods[i].methodName >>

(* C7: a sweep removes the session and the plan of every session idle for
   more than one hour, leaves every other session and plan as it was, and
   afterwards every lookup of a removed id reports not found. *)
C7_CleanupRemovesIdle ==
  LET r == cleanup(sessions, plans, now)
      idle == {id \in DOMAIN sessions :
                 now - sessions[id].lastActivity > RetentionMs}
  IN /\ \A id \in idle :
          /\ id \notin DOMAIN r.sessions
          /\ id \notin DOMAIN r.plans
          /\ getSession(r.sessions, id) = None
          /\ getPlan(r.plans, id) = None
          /\ getNextMethod(r.sessions, id).ret = None
          /\ getProgress(r.sessions, id) = None
          /\ \A name \in CallNames, a \in StatusArgs :
               updateMethodStatus(r.sessions, id, name, a[1], a[2], now)
                 = [ret |-> FALSE, sessions |-> r.sessions]
     /\ DOMAIN r.sessions = (DOMAIN sessions) \ idle
     /\ DOMAIN r.plans = (DOMAIN plans) \ idle
     /\ \A id \in DOMAIN r.sessions : r.sessions[id] = sessions[id]
     /\ \A id \in DOMAIN r.plans : r.plans[id] = plans[id]

(* C7 witness: after a sweep the first session and its plan are gone and the
   second, idle for exactly one hour, is kept with its plan. *)
C7_Witness ==
  /\ ret = [op |-> "cleanup"]
  /\ issued = 2
  /\ 1 \notin DOMAIN sessions /\ 1 \notin DOMAIN plans
  /\ 2 \in DOMAIN sessions /\ 2 \in DOMAIN plans
  /\ now - sessions[2].lastActivity = RetentionMs

(* C8: a tracker operation given an unknown session id or an unknown method
   name returns not found and changes neither map nor any session or plan. *)
C8_UnknownIsNoOp ==
  /\ \A id \in UnknownIds :
       /\ \A name \in CallNames, a \in StatusArgs :
            updateMethodStatus(sessions, id, name, a[1], a[2], now)
              = [ret |-> FALSE, sessions |-> sessions]
       /\ getNextMethod(sessions, id) = [ret |-> None, sessions |-> sessions]
       /\ getProgress(sessions, id) = None
       /\ \A name \in CallNames :
            updatePlanProgress(sessions, plans, id, name)
              = [ret |-> FALSE, plans |-> plans]
       /\ \A methods \in OrphanLists :
            createPlan(plans, id, methods).plans = plans
  /\ \A id \in DOMAIN sessions :
       /\ \A a \in StatusArgs :
            updateMethodStatus(sessions, id, UnknownName, a[1], a[2], now)
              = [ret |-> FALSE, sessions |-> sessions]
       /\ updatePlanProgress(sessions, plans, id, UnknownName)
            = [ret |-> FALSE, plans |-> plans]

PriorityRank(p) == IF p = "high" THEN 2 ELSE IF p = "medium" THEN 1 ELSE 0

UntestedIdx(session) ==
  {i \in 1..Len(session.methods) : ~session.methods[i].hasTests}

(* C9: when a session has an untested method, getNextMethod returns an
   untested method of the highest priority present among the untested ones
   and, within that priority, of the highest complexity; the call leaves the
   sessions as they were. *)
C9_NextIsBestUntested ==
  \A id \in DOMAIN sessions :
    LET session == sessions[id]
        r == getNextMethod(sessions, id)
    IN /\ r.sessions = sessions
       /\ UntestedIdx(session) # {} =>
            /\ r.ret # None
            /\ \E i \in UntestedIdx(session) : session.methods[i] = r.ret[1]
            /\ \A j \in UntestedIdx(session) :
                 LET other == session.methods[j]
                     m == r.ret[1]
                 IN /\ PriorityRank(other.priority) <= PriorityRank(m.priority)
                    /\ other.priority = m.priority
                         => other.complexity <= m.complexity

(* C9 witness: getNextMethod has just returned the second method of a
   session whose first method is untested too, of lower priority but higher
   complexity. *)
C9_Witness ==
  /\ ret.op = "getNextMethod"
  /\ \E id \in DOMAIN sessions :
       LET ms == sessions[id].methods
       IN /\ Len(ms) = 2
          /\ ~ms[1].hasTests /\ ~ms[2].hasTests
          /\ ms[1].priority = "low" /\ ms[1].complexity = 9
          /\ ms[2].priority = "high" /\ ms[2].complexity = 3
          /\ ret.val = Some(ms[2])

PhaseMinutes(number) ==
  IF number = 1 THEN 8 ELSE IF number = 2 THEN 5 ELSE 3

(* C10: createPlan yields at most three phases, numbered in increasing order
   from 1..3 and none empty, each estimated at 8, 5 or 3 minutes per method;
   the five-method scenario gives three phases of 2, 2 and 1 methods
   estimated at 16min, 10min and 3min. *)
C10_PhasesAndScenario ==
  \A id \in DOMAIN plans :
    LET phases == plans[id].phases
    IN /\ Len(phases) <= 3
       /\ \A i \in 1..Len(phases) :
            /\ phases[i].phaseNumber \in 1..3
            /\ Len(phases[i].methods) > 0
            /\ phases[i].estimatedTime
                 = Minutes(PhaseMinutes(phases[i].phaseNumber)
                           * Len(phases[i].methods))
            /\ \A j \in 1..(i - 1) :
                 phases[j].phaseNumber < phases[i].phaseNumber
       /\ arg \in ScenarioLists =>
            /\ Len(phases) = 3
            /\ [i \in 1..3 |-> Len(phases[i].methods)] = <<2, 2, 1>>
            /\ [i \in 1..3 |-> phases[i].estimatedTime]
                 = <<"16min", "10min", "3min">>

(* C11: a client that keeps calling get_next_method and then
   generate_method_test (markCompleted) on the method it was given is told
   'all methods completed' after exactly totalMethods completions: once it
   has made that many, the next answer is 'all completed', and it gets that
   answer after no other number of completions; same-named methods
   included. *)
C11_LoopEndsAfterTotal ==
  \A id \in DOMAIN sessions :
    /\ (clients[1].pc = "idle"
        /\ clients[1].completions = sessions[id].totalMethods)
         => get_next_method(sessions, id).kind = "allCompleted"
    /\ clients[1].pc = "done"
         => clients[1].completions = sessions[id].totalMethods

(* C12: a sweep never removes a session on which a tool call was made less
   than one hour before the sweep. *)
C12_RecentCallKeepsSession ==
  \A id \in (DOMAIN sessions) \cap (DOMAIN lastCall) :
    now - lastCall[id] < RetentionMs
      => id \in DOMAIN cleanup(sessions, plans, now).sessions

Holding(c) == clients[c].pc \in {"given", "analyzing"}

(* C13: two clients working on the same session never both hold the same
   method as their next method while that method is untested. *)
C13_NoSharedNext ==
  \A c1, c2 \in Clients :
    (/\ c1 # c2
     /\ Holding(c1) /\ Holding(c2)
     /\ clients[c1].sessionId = clients[c2].sessionId
     /\ clients[c1].methodName = clients[c2].methodName
     /\ clients[c1].sessionId \in DOMAIN sessions)
    => LET methods == sessions[clients[c1].sessionId].methods
       IN methods[FindMethod(methods, clients[c1].methodName[1])].hasTests

(* C14: every step of a generate_method_test call with markCompleted = false
   leaves the sessions and the plans as they were (hasTests, testPath,
   completedMethods, lastActivity, the phases' completed flags and
   currentPhase), so getNextMethod and getProgress answer as before. *)
C14_ReviewModeChangesNothing ==
  [][(ret'.op = "generate_method_test" /\ ~ret'.markCompleted)
       => /\ sessions' = sessions
          /\ plans' = plans
          /\ \A id \in KnownIds :
               /\ getNextMethod(sessions', id).ret = getNextMethod(sessions, id).ret
               /\ getProgress(sessions', id) = getProgress(sessions, id)]_vars

(* C14 witness: a generate_method_test call without markCompleted has
   answered with the generated test, some time after the last activity of a
   session that has a plan and a method still untested. *)
C14_Witness ==
  /\ ret.op = "generate_method_test"
  /\ ~ret.markCompleted
  /\ ret.val = "generated"
  /\ \E id \in (DOMAIN sessions) \cap (DOMAIN plans) :
       /\ clients[1].sessionId = id
       /\ now > sessions[id].lastActivity
       /\ Len(sessions[id].methods) > 0
       /\ ~sessions[id].methods[1].hasTests
       /\ sessions[id].completedMethods = << >>

UntestedIn(session, phase) ==
  \E i \in 1..Len(session.methods) :
    /\ ~session.methods[i].hasTests
    /\ Includes(phase.methods, session.methods[i].methodName)

(* C20: when a client follows get_next_method, the method it is given
   belongs to a phase at or before every phase that still has an untested
   method: no method of a later phase only is issued while an earlier phase
   has an untested method. *)
C20_PhasesInOrder ==
  \A id \in (DOMAIN sessions) \cap (DOMAIN plans) :
    LET answer == get_next_method(sessions, id)
    IN answer.kind = "next" =>
         \A k \in 1..Len(plans[id].phases) :
           UntestedIn(sessions[id], plans[id].phases[k])
             => \E i \in PhasesNaming(plans[id], answer.method[1].methodName) :
                  i <= k

(* C19: one plan per session with the same lifecycle: the plan map holds an
   entry for an id exactly when the session map holds one. *)
C19_PlanIffSession == DOMAIN plans = DOMAIN sessions

(* C15: every error path analyzeErrorPaths produces, by any of its passes,
   has severity critical and is not recoverable when its category is
   security. *)
C15_SecurityIsCritical ==
  ret.op = "analyzeErrorPaths" =>
    \A i \in 1..Len(ret.val) :
      ret.val[i].category = "security"
        => ret.val[i].severity = "critical" /\ ~ret.val[i].recoverable

(* The class of the scenario: createUser(email) raises Error("Email is
   required") under a guard that tests for an empty email; findUser(id) has
   no throw statement and no rejection. *)
EmptyGuards == {NotEmail, LengthNotPositive}

CreateUserBody(guard) ==
  << IfStatement(guard, << ThrowStatement(Some(Text("Error", {}, {"error"})),
                                          Some(EmailIsRequired)) >>) >>

IsCreateUser(method) ==
  /\ \E guard \in EmptyGuards : method.body = CreateUserBody(guard)
  /\ ~method.mentionsReject

IsFindUser(method) ==
  /\ getDescendantsOfKind(method, "throw") = << >>
  /\ ~method.mentionsReject

IsRequiredParameterPath(path) ==
  /\ path.category = "validation"
  /\ path.severity = "low"
  /\ path.recoverable
  /\ path.condition = "missing required parameter"

(* C18 as stated: analyzeErrorPaths yields exactly one error path for
   createUser, with category validation, severity low, recoverable true and
   condition "missing required parameter", and none for findUser. *)
C18_OnePathForCreateUser ==
  ret.op = "analyzeErrorPaths" =>
    /\ IsCreateUser(arg) =>
         Len(ret.val) = 1 /\ IsRequiredParameterPath(ret.val[1])
    /\ IsFindUser(arg) => ret.val = << >>

ErrorGuards(method) ==
  LET ifs == getDescendantsOfKind(method, "if")
  IN {i \in 1..Len(ifs) : isErrorCondition(ifs[i].node.condition)}

CatchingTries(method) ==
  LET tries == getDescendantsOfKind(method, "try")
  IN {i \in 1..Len(tries) : tries[i].node.hasCatch}

(* C18 amended: the first error path of createUser is that of the raise, with
   category validation, severity low, recoverable true and condition
   "missing required parameter"; it is followed by one path for each guard
   that is an error condition itself (`!email` is, `email.length <= 0` is
   not), so it is the only path exactly when the guard is none; findUser
   yields one path per error guard and per try/catch, none when it has
   neither. *)
C18_RaisePathThenGuards ==
  ret.op = "analyzeErrorPaths" =>
    /\ IsCreateUser(arg) =>
         /\ Len(ret.val) = 1 + Cardinality(ErrorGuards(arg))
         /\ IsRequiredParameterPath(ret.val[1])
         /\ ret.val[1].errorType = "Error"
         /\ \A i \in 2..Len(ret.val) :
              /\ ret.val[i].condition = arg.body[1].condition.text
              /\ ret.val[i].recoverable
    /\ IsFindUser(arg) =>
         Len(ret.val) = Cardinality(ErrorGuards(arg))
                        + Cardinality(CatchingTries(arg))

(* C18 witness: createUser guarded by `!email` analysed to two paths, the
   raise and the guard. *)
C18_Witness ==
  /\ ret.op = "analyzeErrorPaths"
  /\ arg.body = CreateUserBody(NotEmail)
  /\ ~arg.mentionsReject
  /\ Len(ret.val) = 2
  /\ ret.val[1].condition = "missing required parameter"
  /\ ret.val[2].condition = "!email"

(* The if, for, while and switch statements of a method body *)
ConstructCount(method) ==
  method.IfStatement + method.ForStatement + method.WhileStatement
  + method.SwitchStatement

ClassRank(class) ==
  CASE class = "simple" -> 0 [] class = "medium" -> 1 [] class = "complex" -> 2

ClassMonotonic ==
  \A other \in MethodBodies :
    ConstructCount(other) <= ConstructCount(arg)
      => ClassRank(calculateComplexity(other)) <= ClassRank(ret.val)

(* C16 as stated: the complexity class is monotonic in the count of
   conditional, loop and switch constructs, and a count of 3 gives simple, of
   4 medium, of 7 medium, of 8 complex. *)
C16_CountBoundaries ==
  ret.op = "calculateComplexity" =>
    /\ ClassMonotonic
    /\ ConstructCount(arg) = 3 => ret.val = "simple"
    /\ ConstructCount(arg) = 4 => ret.val = "medium"
    /\ ConstructCount(arg) = 7 => ret.val = "medium"
    /\ ConstructCount(arg) = 8 => ret.val = "complex"

(* C16 amended: the complexity class is monotonic in the count of if, for,
   while and switch statements, and the thresholds apply to the score
   1 + count: a score of 3 (count 2) gives simple, of 4 (count 3) medium, of
   7 (count 6) medium, of 8 (count 7) complex. *)
C16_ScoreBoundaries ==
  ret.op = "calculateComplexity" =>
    /\ ClassMonotonic
    /\ 1 + ConstructCount(arg) = 3 => ret.val = "simple"
    /\ 1 + ConstructCount(arg) = 4 => ret.val = "medium"
    /\ 1 + ConstructCount(arg) = 7 => ret.val = "medium"
    /\ 1 + ConstructCount(arg) = 8 => ret.val = "complex"

(* C16 witness: a method with two if statements and a for loop, besides a
   loop that is not counted, is classified medium. *)
C16_Witness ==
  /\ ret.op = "calculateComplexity"
  /\ arg.IfStatement = 2 /\ arg.ForStatement = 1
  /\ arg.WhileStatement = 0 /\ arg.SwitchStatement = 0
  /\ arg.others = 1
  /\ ret.val = "medium"

ScenarioTuple(scenario) ==
  <<scenario.name, scenario.type, scenario.setup, scenario.expectations>>

(* C17: scenario generation for a method is deterministic and duplicate-free:
   every run on the same input yields the same scenarios, and no two
   scenarios of a run have the same (name, type, setup, expectations), also
   when error paths repeat a condition and error type or parameters repeat a
   name. *)
C17_DeterministicNoDuplicates ==
  ret.op = "generateMethodScenarios" =>
    /\ \A i, j \in DOMAIN ret.runs : ret.runs[i] = ret.runs[j]
    /\ \A r \in DOMAIN ret.runs :
         \A i, j \in DOMAIN ret.runs[r] :
           ScenarioTuple(ret.runs[r][i]) = ScenarioTuple(ret.runs[r][j])
             => i = j

(* C17 witness: two runs on a method with two equal error paths and two
   parameters of one name; each run holds the success scenario, one error
   scenario and one edge case. *)
C17_Witness ==
  /\ ret.op = "generateMethodScenarios"
  /\ Len(ret.runs) = 2
  /\ Len(arg.method.errorPaths) = 2
  /\ arg.method.errorPaths[1] = arg.method.errorPaths[2]
  /\ arg.methodDecl.defined
  /\ arg.methodDecl.parameters = <<"email", "email">>
  /\ Len(ret.runs[2]) = 3

LastPhase(plan) == Len(plan.phases) - 1

(* The phase at the current pointer has completed = false before the step
   and completed = true after it *)
CurrentBecomesCompleted(id) ==
  LET k == plans[id].currentPhase + 1
  IN /\ ~plans[id].phases[k].completed
     /\ plans'[id].phases[k].completed

(* C21: updatePlanProgress advances currentPhase by one (not beyond the last
   phase) exactly when the phase at the current pointer becomes completed and
   leaves it unchanged otherwise; currentPhase never decreases and never
   exceeds the index of the last phase. *)
C21_PointerFollowsCompletion ==
  [][\A id \in DOMAIN plans \cap DOMAIN plans' :
       Len(plans[id].phases) > 0 =>
         /\ plans'[id].currentPhase =
              IF CurrentBecomesCompleted(id)
              THEN Min(plans[id].currentPhase + 1, LastPhase(plans[id]))
              ELSE plans[id].currentPhase
         /\ plans'[id].currentPhase >= plans[id].currentPhase
         /\ plans'[id].currentPhase <= LastPhase(plans'[id])]_vars

(* C27: whenever a plan has a phase that is not completed, currentPhase is
   the index of a phase that is not completed, in any order of completion. *)
C27_ActivePhasePending ==
  \A id \in DOMAIN plans :
    (\E k \in 1..Len(plans[id].phases) : ~plans[id].phases[k].completed)
      => ~plans[id].phases[plans[id].currentPhase + 1].completed

PhaseSound(id, k) ==
  /\ id \in DOMAIN sessions
  /\ \A m \in 1..Len(plans[id].phases[k].methods) :
       Includes(sessions[id].completedMethods, plans[id].phases[k].methods[m])

(* C28: a phase's completed flag is sound and permanent: completed = true
   implies every method of the phase is in the session's completedMethods,
   and a completed phase never becomes incomplete again. *)
C28_CompletedSoundPermanent ==
  [][\A id \in DOMAIN plans' :
       \A k \in 1..Len(plans'[id].phases) :
         /\ plans'[id].phases[k].completed
              => /\ id \in DOMAIN sessions'
                 /\ \A m \in 1..Len(plans'[id].phases[k].methods) :
                      Includes(sessions'[id].completedMethods,
                               plans'[id].phases[k].methods[m])
         /\ (id \in DOMAIN plans /\ plans[id].phases[k].completed)
              => plans'[id].phases[k].completed]_vars

(* C28 witness: a phase of two methods is completed, and one of its methods
   has since been set back to hasTests = false. *)
C28_Witness ==
  \E id \in DOMAIN plans \cap DOMAIN sessions :
    \E k \in 1..Len(plans[id].phases) :
      /\ plans[id].phases[k].completed
      /\ Len(plans[id].phases[k].methods) = 2
      /\ PhaseSound(id, k)
      /\ \E i \in 1..Len(sessions[id].methods) :
           /\ Includes(plans[id].phases[k].methods, sessions[id].methods[i].methodName)
           /\ ~sessions[id].methods[i].hasTests
      /\ ret.op = "updateMethodStatus"

(* C25: getProgress reports completed <= total and completed + (number of
   remaining methods) = total, in every reachable state of a session. *)
C25_ProgressAddsUp ==
  (ret.op = "getProgress" /\ ret.val # None) =>
    /\ ret.val[1].completed <= ret.val[1].total
    /\ ret.val[1].completed + Len(ret.val[1].remaining) = ret.val[1].total

(* C26: track_progress reports 100% and the message that all methods have
   been tested only when every method of the session is tested: with
   completed < total the percentage of getProgress is below 100. *)
C26_HundredOnlyWhenDone ==
  /\ (ret.op = "track_progress" /\ ret.val.kind = "congratulations")
       => \A i \in 1..Len(sessions[1].methods) : sessions[1].methods[i].hasTests
  /\ (ret.op = "getProgress" /\ ret.val # None
      /\ ret.val[1].total >= 1 /\ ret.val[1].completed < ret.val[1].total)
       => ret.val[1].percentage < 100

(* The number of minutes a phase estimate such as "16min" states *)
PhaseEstimate(phase) ==
  CHOOSE n \in 0..(8 * Len(phase.methods)) : Minutes(n) = phase.estimatedTime

RECURSIVE SumOfPhases(_)
SumOfPhases(phases) ==
  IF phases = << >> THEN 0
  ELSE PhaseEstimate(Head(phases)) + SumOfPhases(Tail(phases))

EstimateText(totalMinutes) ==
  IF totalMinutes < 60 THEN Minutes(totalMinutes)
  ELSE ToString(totalMinutes \div 60) \o "h " \o Minutes(totalMinutes % 60)

(* C29: the plan's total estimated time equals the sum of the estimated
   times of its phases, for every list of methods passed to createPlan. *)
C29_TotalIsSumOfPhases ==
  ret.op = "createPlan" =>
    ret.val.estimatedTime = EstimateText(SumOfPhases(ret.val.phases))

(* C22: the sweep never deletes a session in the middle of an update: when a
   generate_method_test call with markCompleted = true that found its session
   answers with the generated test, the method is recorded as tested in a
   session that is still in the store. *)
C22_SweepNotMidUpdate ==
  [][\A c \in Clients :
       (/\ clients[c].pc = "analyzing"
        /\ clients[c].markCompleted
        /\ clients'[c].pc = "idle"
        /\ ret'.op = "generate_method_test"
        /\ ret'.val = "generated")
         => /\ clients[c].sessionId \in DOMAIN sessions'
            /\ \E i \in 1..Len(sessions'[clients[c].sessionId].methods) :
                 /\ sessions'[clients[c].sessionId].methods[i].methodName
                      = clients[c].methodName[1]
                 /\ sessions'[clients[c].sessionId].methods[i].hasTests]_vars

(* The flow type by the stated precedence, a loop being a for or a while *)
FlowTypeByPrecedence(method) ==
  LET suspends == method.AwaitExpression > 0
  IN IF method.TryStatement > 0 /\ suspends THEN "error-prone"
     ELSE IF suspends /\ method.CallExpression > 3 THEN "async-chain"
     ELSE IF method.ForStatement + method.WhileStatement > 0 THEN "loop"
     ELSE IF method.IfStatement > 0 THEN "conditional"
     ELSE "linear"

(* C23: the flow type follows the precedence error-prone (try/catch and a
   suspending call) over async-chain (a suspending call and more than 3 call
   expressions) over loop (any loop, for or while) over conditional over
   linear; a method with 2 nested conditionals and 1 loop has score 4, class
   medium and flow type loop. *)
C23_FlowTypePrecedence ==
  ret.op = "analyzeMethodFlow" =>
    /\ ret.val.flowType = FlowTypeByPrecedence(arg)
    /\ (/\ arg.IfStatement = 2
        /\ arg.ForStatement + arg.WhileStatement = 1
        /\ arg.SwitchStatement = 0
        /\ arg.AwaitExpression = 0 /\ arg.TryStatement = 0)
         => /\ ret.val.complexity = "medium"
            /\ ret.val.flowType = "loop"

(* C24: in the bundle of analyzeAdvanced a method's testComplexity equals
   min(10, ceil(1 + 0.5 * parameters + reported error paths + mockable side
   effects)). *)
C24_TestComplexityFormula ==
  ret.op = "analyzeAdvanced" =>
    LET mocked == Cardinality({i \in 1..Len(ret.val.sideEffects) :
                                 ret.val.sideEffects[i].needsMocking})
        twice == 2 + arg.parameterCount + 2 * Len(ret.val.errorPaths)
                 + 2 * mocked
    IN /\ ret.val.testComplexity = Min((twice + 1) \div 2, 10)
       /\ ret.val.testComplexity <= 10

PhaseNumbersOf(plan, methodName) ==
  {plan.phases[k].phaseNumber :
     k \in {j \in 1..Len(plan.phases) : Includes(plan.phases[j].methods, methodName)}}

(* C30: in a session created by plan_test_generation, a method the flow
   analyzer classifies as complex has a strictly higher numeric complexity,
   and a priority at least as high, as one it classifies as simple; methods
   of complexity 8-10 are in Phase 1 and methods of complexity 4-7 in
   Phase 2. *)
C30_ClassesOrderSession ==
  ret.op = "plan_test_generation" =>
    LET methods == sessions[ret.val].methods
        plan == plans[ret.val]
    IN /\ \A i, j \in 1..Len(arg) :
            (/\ calculateComplexity(arg[i]) = "complex"
             /\ calculateComplexity(arg[j]) = "simple")
              => /\ methods[i].complexity > methods[j].complexity
                 /\ priorityOrder(methods[i].priority)
                      >= priorityOrder(methods[j].priority)
       /\ \A i \in 1..Len(methods) :
            /\ methods[i].complexity >= 8
                 => 1 \in PhaseNumbersOf(plan, methods[i].methodName)
            /\ (methods[i].complexity >= 4 /\ methods[i].complexity <= 7)
                 => 2 \in PhaseNumbersOf(plan, methods[i].methodName)


====
